---- MODULE Spec2Model ----
(***************************************************************************)
(* TorrentView: the add orchestration of POST /api/v2/torrents/add         *)
(* (src/src/app/api/v2/torrents/add/route.ts) run against the download     *)
(* backend it talks to over HTTP.                                          *)
(*                                                                         *)
(* One run of the handler is modelled.  Every `await fetch(...)` is one    *)
(* step: the request is appended to `requests` together with the outcome   *)
(* the backend produced for it, and the code that follows the await up to  *)
(* the next fetch is executed in the same step.                            *)
(*                                                                         *)
(* Spec       one run of the add handler against the backend               *)
(* SpecEnv    one run, with a client that disconnects and fetches that     *)
(*            never settle                                                 *)
(* SpecConc   the registration stages of two runs against one backend      *)
(* SpecMeta   GET /api/v2/torrents/files (getTorrentMetadata)              *)
(* SpecDialog the file tree and the selection of the download dialog       *)
(* SpecLife   the dialog opened and closed for several torrents            *)
(* SpecStream GET /api/torrents, the server-sent event stream              *)
(* SpecReconn the EventSource effect of the torrent list client            *)
(***************************************************************************)
EXTENDS Integers, Sequences, FiniteSets, TLC

(* ------------------------------ bounds --------------------------------- *)
\* longest metadata.files list that is enumerated
MaxFiles == 3
\* how many torrents other clients add to the backend during the run
MaxOther == 1
\* how many events of the swarm client and its timer are followed
MaxEvents == 2
\* how many times the polling interval of the event stream fires
MaxTicks == 3
\* how many reconnect timers the torrent list client sets in all
MaxTimers == 6

(* ------------------------- program constants --------------------------- *)
\* let retrys = 10; // HARD-CODED
MaxRetrys == 10
\* const maxReconnectAttempts = 5;
maxReconnectAttempts == 5

(* ------------------------------ inputs --------------------------------- *)
\* TorrentFileInfo values (src/src/lib/types.ts): path segments and length
FileEntries ==
   { [path |-> <<"a">>,      length |-> 1],
     [path |-> <<"d", "b">>, length |-> 2],
     [path |-> <<"d", "c">>, length |-> 3] }

\* torrent.name, the path the dialog selects when it has no file list
TorrentName == "t"
\* torrent.metadata.hash, the identifier the backend registers the torrent under
Hash == "h1"
\* torrent.hash: the magnet URI or .torrent URL that is submitted as `urls`
TorrentUrl == "magnet:?xt=urn:btih:h1"
\* a torrent added to the backend by somebody else
OtherHash == "h2"
\* the `backendUrl` query parameter when it is present
BackendUrl == "http://qb"

\* HTTP statuses the backend answers with; 0 stands for a fetch() that throws
Statuses == {200, 404}
Outcomes == {0} \cup Statuses

\* Response.ok
Ok(status) == status >= 200 /\ status <= 299

RECURSIVE Join(_)
\* f.path.join("/")
Join(path) ==
   IF path = <<>> THEN ""
   ELSE IF Len(path) = 1 THEN path[1]
   ELSE path[1] \o "/" \o Join(Tail(path))

\* all lists of at most n file entries
FileLists(n) == UNION { [1..k -> FileEntries] : k \in 0..n }

\* the selections onSubmit of the download dialog sends for a file list: with
\* the list loaded, selected paths that are joined file paths; without it,
\* the torrent's name or nothing
Selections(files) ==
   (SUBSET { Join(files[i].path) : i \in 1..Len(files) }) \cup {{TorrentName}}

VARIABLES
   backendUrl,     \* searchParams.get("backendUrl"), "" when missing
   metadata,       \* body.torrent.metadata: [present, hash, files]
   selectedFiles,  \* body.data.selectedFiles: [present, paths]
   paused,         \* body.data.paused
   pc,             \* position of the handler
   retrys,         \* the poll loop's counter
   url,            \* the handler's `url` variable
   updated,        \* body of the latest poll response: [parsed, listing]
   requests,       \* backend requests issued so far, with their outcomes
   response,       \* the handler's HTTP response, status 0 while there is none
   bPending,       \* backend: an accepted add that is not yet listed
   bTorrents,      \* backend: hashes of the listed torrents in added_on order
   bState,         \* backend: state of the torrent of this run
   bPrio,          \* backend: file ids of this torrent that have priority 0
   \* two runs of the handler against one backend (registration stages)
   cPc,            \* position of each run
   cRetrys,        \* each run's poll counter
   cPending,       \* backend: hashes of accepted adds that are not yet listed
   cTorrents,      \* backend: hashes of the listed torrents in added_on order
   \* the surroundings of one run of the handler
   aborted,        \* the stage at which the client disconnected, "" if it has not
   hung,           \* the fetch the handler awaits will never settle
   \* one run of GET /api/v2/torrents/files (getTorrentMetadata)
   query,          \* the search parameters: [backendUrl, url], "" when missing
   info,           \* the info dictionary of the torrent the url leads to
   mpc,            \* position of GET / getTorrentMetadata
   destroyed,      \* how many times client.destroy() has been called
   timeout,        \* the magnet timer: "none", "armed", "cleared" or "fired"
   resolved,       \* how getTorrentMetadata ended: [kind, error, record]
   metaResponse,   \* the response of GET, status 0 while there is none
   events,         \* what the swarm client and the timer did, in order
   \* the download options dialog
   dlgFiles,       \* the `files` state: [loaded, list], not loaded is null
   dlgTree,        \* the `fileTree` memo
   dlgSelected,    \* the `selectedFiles` state, a set of paths
   dlgSent,        \* what onSubmit posted: [sent, selectedFiles]
   \* the dialog's props and loading state over several openings
   dlgTorrent,     \* the `torrent` prop, 0 for null
   isOpen,         \* the `isOpen` prop
   isLoadingFiles, \* the `isLoadingFiles` state
   inFlight,       \* the torrents a metadata fetch of fetchFiles is awaited for
   cached,         \* the torrents whose `metadata` fetchFiles has set
   \* GET /api/torrents, the event stream
   sBackendUrl,    \* the backendUrl parameter, "" when missing
   sPhase,         \* "Idle", "Initial" (start awaits the first fetchRSS), "Started", "Failed", "Ended"
   periodic,       \* a fetchRSS started by the interval is awaiting its fetch
   intervalId,     \* "unset", "set" or "cleared"
   listening,      \* the abort listener is registered
   sAborted,       \* request.signal has fired abort
   sCancelled,     \* the consumer has cancelled the stream
   sClosed,        \* controller.close() has been called
   enqueued,       \* how many events were enqueued
   ticks,          \* how often the interval has fired
   \* the EventSource effect of TorrentClient
   eventSource,    \* "connecting", "open", "failed" (given up by the browser) or "closed"
   reconnectAttempts,
   timers,         \* the ids of the reconnect timers that are pending
   reconnectTimeout, \* the id setTimeout returned last, 0 while undefined
   scheduled,      \* how many timers were set so far
   cleaned,        \* the effect's cleanup has run
   torrentList,    \* the `torrents` state: "empty" or "list"
   connects,       \* reconnects made since the last successful open
   lateConnect     \* a reconnect was made after the cleanup

inputs == <<backendUrl, metadata, selectedFiles, paused>>
handler == <<pc, retrys, url, updated, requests, response>>
backend == <<bPending, bTorrents, bState, bPrio>>
addVars == <<backendUrl, metadata, selectedFiles, paused, pc, retrys, url, updated,
             requests, response, bPending, bTorrents, bState, bPrio>>
conc == <<cPc, cRetrys, cPending, cTorrents>>
env == <<aborted, hung>>
\* the variables that are no part of the single run of the add handler
dialog == <<dlgFiles, dlgTree, dlgSelected, dlgSent>>
life == <<dlgTorrent, isOpen, isLoadingFiles, inFlight, cached>>
meta == <<query, info, mpc, destroyed, timeout, resolved, metaResponse, events>>
\* the parts of the program added after the routes and the dialog
stream == <<sBackendUrl, sPhase, periodic, intervalId, listening, sAborted, sCancelled,
            sClosed, enqueued, ticks>>
reconn == <<eventSource, reconnectAttempts, timers, reconnectTimeout, scheduled, cleaned,
            torrentList, connects, lateConnect>>
rest == <<life, stream, reconn>>
\* the variables that are no part of the dialog and its openings
outsideLife == <<addVars, conc, env, meta, stream, reconn>>
\* the variables that are no part of the event stream
outsideStream == <<addVars, conc, env, meta, dialog, life, reconn>>
\* the variables that are no part of the EventSource effect
outsideReconn == <<addVars, conc, env, meta, dialog, life, stream>>
\* the variables that are no part of the single run of the add handler
outsideAdd == <<conc, env, meta, dialog, rest>>
\* the variables that are no part of the two concurrent runs
outsideConc == <<addVars, env, meta, dialog, rest>>
\* the variables that are no part of the metadata route
outsideMeta == <<addVars, conc, env, dialog, rest>>
\* the variables that are no part of the dialog
outsideDialog == <<addVars, conc, env, meta, rest>>
vars == <<addVars, conc, env, meta, dialog, rest>>

\* the requests of the concurrent runs and the torrent each one adds
Reqs == {1, 2}
CHash(r) == IF r = 1 THEN Hash ELSE OtherHash

\* no concurrent runs are going on
ConcIdle ==
   /\ cPc = [r \in Reqs |-> "Off"]
   /\ cRetrys = [r \in Reqs |-> 0]
   /\ cPending = {}
   /\ cTorrents = <<>>

\* the client stays connected and every fetch settles
EnvIdle ==
   /\ aborted = ""
   /\ hung = FALSE

\* a metadata record with nothing in it (no record)
NoRecord == [source |-> "", hash |-> "", v1Hash |-> "", v2Hash |-> "", name |-> "",
             length |-> 0, files |-> <<>>, fileTree |-> <<>>]
\* an info dictionary that is missing
NoInfo == [present |-> FALSE, keys |-> {}, metaVersion |-> 1, name |-> "", files |-> <<>>]
NoResolution == [kind |-> "none", error |-> "", record |-> NoRecord]
NoMetaResponse == [status |-> 0, error |-> "", body |-> NoRecord]

\* no metadata request
MetaIdle ==
   /\ query = [backendUrl |-> "", url |-> ""]
   /\ info = NoInfo
   /\ mpc = "Off"
   /\ destroyed = 0
   /\ timeout = "none"
   /\ resolved = NoResolution
   /\ metaResponse = NoMetaResponse
   /\ events = <<>>

\* a FileTreeNode of the dialog; the memo is null while no files are loaded
Node(name, path, size, isFile, children) ==
   [name |-> name, path |-> path, size |-> size, isFile |-> isFile, children |-> children]
NoTree == Node("", "", 0, FALSE, <<>>)

\* nothing has been submitted
NotSent == [sent |-> FALSE, selectedFiles |-> {}]

\* the dialog is closed
DialogIdle ==
   /\ dlgFiles = [loaded |-> FALSE, list |-> <<>>]
   /\ dlgTree = NoTree
   /\ dlgSelected = {}
   /\ dlgSent = NotSent

\* the dialog is open for its one torrent and stays open
LifeIdle ==
   /\ dlgTorrent = 1
   /\ isOpen = TRUE
   /\ isLoadingFiles = FALSE
   /\ inFlight = {}
   /\ cached = {}

\* no event stream is requested
StreamIdle ==
   /\ sBackendUrl = ""
   /\ sPhase = "Off"
   /\ periodic = FALSE
   /\ intervalId = "unset"
   /\ listening = FALSE
   /\ sAborted = FALSE
   /\ sCancelled = FALSE
   /\ sClosed = FALSE
   /\ enqueued = 0
   /\ ticks = 0

\* TorrentClient is not mounted
ReconnIdle ==
   /\ eventSource = "closed"
   /\ reconnectAttempts = 0
   /\ timers = {}
   /\ reconnectTimeout = 0
   /\ scheduled = 0
   /\ cleaned = FALSE
   /\ torrentList = "empty"
   /\ connects = 0
   /\ lateConnect = FALSE

RestIdle ==
   /\ LifeIdle
   /\ StreamIdle
   /\ ReconnIdle

NoResponse == [status |-> 0, hash |-> "", error |-> "", message |-> ""]
NoBody == [parsed |-> FALSE, listing |-> <<>>]

Init ==
   /\ backendUrl \in {"", BackendUrl}
   /\ metadata \in { [present |-> FALSE, hash |-> "", files |-> <<>>] }
                   \cup { [present |-> TRUE, hash |-> Hash, files |-> fs] : fs \in FileLists(MaxFiles) }
   /\ selectedFiles \in { [present |-> FALSE, paths |-> {}] }
                        \cup { [present |-> TRUE, paths |-> s] : s \in Selections(metadata.files) }
   /\ paused \in BOOLEAN
   /\ pc = "Idle"
   /\ retrys = 0
   /\ url = ""
   /\ updated = NoBody
   /\ requests = <<>>
   /\ response = NoResponse
   /\ bPending = "none"
   /\ bTorrents = <<>>
   /\ bState = "absent"
   /\ bPrio = {}
   /\ ConcIdle
   /\ EnvIdle
   /\ MetaIdle
   /\ DialogIdle
   /\ RestIdle

(* ------------------------- the handler's helpers ----------------------- *)
\* backend requests as they are logged: the fields the handler puts in the
\* form, the HTTP status it got back (0: the fetch threw), and for a poll
\* whether the returned listing was headed by this torrent's hash
Request(kind, fields, status, hit) ==
   [kind |-> kind, urls |-> fields.urls, stopped |-> fields.stopped, hash |-> fields.hash,
    hashes |-> fields.hashes, priority |-> fields.priority, id |-> fields.id, status |-> status, hit |-> hit]

NoFields == [urls |-> "", stopped |-> "", hash |-> "", hashes |-> "", priority |-> "", id |-> <<>>]

\* String(b) for a boolean
BoolString(b) == IF b THEN "true" ELSE "false"

\* the add request passing the caller's paused option on, as an earlier
\* revision of the route did
AddFormData_PassesPaused(data) ==
   [NoFields EXCEPT !.urls = TorrentUrl, !.stopped = BoolString(data.paused)]

\* formData of the add request (savepath, sequentialDownload, firstLastPiecePrio
\* and contentLayout are passed through and play no part in the orchestration)
AddFormData(data) ==
   [NoFields EXCEPT !.urls = TorrentUrl, !.stopped = BoolString(TRUE)]

\* the poll accepting any non-empty listing without comparing the hash
EntryMatches_NoHash(entry, hash) ==
   /\ entry.parsed
   /\ Len(entry.listing) > 0

\* entry!.length && entry[0].hash === torrent.metadata.hash
EntryMatches(entry, hash) ==
   /\ entry.parsed
   /\ Len(entry.listing) > 0
   /\ entry.listing[1] = hash

\* } while (--retrys): the counter after the decrement
Decrement_Twice(r) == r - 2

Decrement(r) == r - 1

\* the loop written as while (retrys--): the test sees the old value
LoopAgain_PostDecrement(r) == r # -1

\* } while (--retrys): the loop goes round again
LoopAgain(r) == r # 0

\* the check after the loop written as retrys < 0
NotFound_Negative(r) == r < 0

\* if (!retrys) throw ...
NotFound(r) == r = 0

\* the length comparison turned round
FewerSelected_Greater(selected, files) == Cardinality(selected) > Len(files)

\* data.selectedFiles.length < torrent.metadata.files.length
FewerSelected(selected, files) == Cardinality(selected) < Len(files)

\* torrent.metadata.files.map(f => f.path.join("/"))
Joined(files) == [i \in 1..Len(files) |-> Join(files[i].path)]

\* files.difference(selecteds)
Difference(joined, selecteds) == { joined[i] : i \in 1..Len(joined) } \ selecteds

RECURSIVE IdsFrom(_, _, _)
\* for (let i = 0, n = joined.length; i < n; ++i) if (difference.has(joined[i])) ids.push(i)
\* i is the zero-based loop index
IdsFrom(joined, difference, i) ==
   IF i >= Len(joined) THEN <<>>
   ELSE (IF joined[i + 1] \in difference THEN <<i>> ELSE <<>>) \o IdsFrom(joined, difference, i + 1)

\* the ids pushed one-based
Ids_OneBased(joined, difference) ==
   [k \in 1..Len(IdsFrom(joined, difference, 0)) |-> IdsFrom(joined, difference, 0)[k] + 1]

Ids(joined, difference) == IdsFrom(joined, difference, 0)

RECURSIVE JoinIds(_)
\* ids.join("|"): the characters of the id field, one element per number and
\* per delimiter
JoinIds(ids) ==
   IF ids = <<>> THEN <<>>
   ELSE IF Len(ids) = 1 THEN <<ToString(ids[1])>>
   ELSE <<ToString(ids[1]), "|">> \o JoinIds(Tail(ids))

\* formData of the filePrio request
PrioFormData(hash, ids) ==
   [NoFields EXCEPT !.hash = hash, !.priority = ToString(0), !.id = JoinIds(ids)]

\* formData of the start request
StartFormData(hash) == [NoFields EXCEPT !.hashes = hash]

\* the start request sent whatever the paused option is
ShouldStart_Always(p) == TRUE

\* if (!data.paused)
ShouldStart(p) == ~p

\* a rejected filePrio request without the return of line 69
AfterFilePrio_NoReturn(filtered) == IF filtered = 0 THEN "Done" ELSE "Starting"

\* where the handler stands after the filePrio request: a fetch that throws
\* lands in the catch block, a rejected one returns at line 69, anything
\* else falls through to the start stage
AfterFilePrio(filtered) == IF filtered = 0 \/ ~Ok(filtered) THEN "Done" ELSE "Starting"

\* the catch block: status 500 and the url that was being talked to
Caught(error, u) ==
   [status |-> 500, hash |-> "", error |-> error, message |-> "Failed on " \o u]

\* the early 400 responses
BadRequest_ServerError(error) == [status |-> 500, hash |-> "", error |-> error, message |-> ""]

BadRequest(error) == [status |-> 400, hash |-> "", error |-> error, message |-> ""]

\* if (!filtered.ok) return NextResponse.json({ error }, { status: filtered.status })
PrioRejected(u, status) ==
   [status |-> status, hash |-> "", error |-> "Failed to GET to " \o u, message |-> ""]

\* return NextResponse.json({ hash: torrent.metadata.hash }, { status: 200 })
Success(hash) == [status |-> 200, hash |-> hash, error |-> "", message |-> ""]

AddUrl   == backendUrl \o "/api/v2/torrents/add"
InfoUrl  == backendUrl \o "/api/v2/torrents/info?limit=1&sort=added_on&reverse=true"
PrioUrl  == backendUrl \o "/api/v2/torrents/filePrio"
StartUrl == backendUrl \o "/api/v2/torrents/start"

(* ------------------------------ the backend ---------------------------- *)
\* GET /torrents/info?limit=1&sort=added_on&reverse=true: the latest torrent
Latest(torrents) == IF torrents = <<>> THEN <<>> ELSE <<torrents[Len(torrents)]>>

RECURSIVE SplitIds(_)
\* the backend's reading of the id field: numbers separated by "|"
SplitIds(chars) ==
   IF chars = <<>> THEN <<>>
   ELSE IF chars[1] = "|" THEN SplitIds(Tail(chars))
   ELSE <<CHOOSE n \in 0..9 : ToString(n) = chars[1]>> \o SplitIds(Tail(chars))

\* an accepted add becomes visible in the listing some time after the answer
BackendRegister ==
   /\ bPending # "none"
   /\ bTorrents' = Append(bTorrents, Hash)
   /\ bState' = IF bPending = "true" THEN "stopped" ELSE "running"
   /\ bPending' = "none"
   /\ UNCHANGED outsideAdd
   /\ UNCHANGED <<inputs, handler, bPrio>>

\* somebody else adds a torrent, which becomes the latest one; the handler
\* reads the listing only while it polls, so later additions are left out
BackendOther ==
   /\ pc \in {"Idle", "Registering", "AwaitingRegistration"}
   /\ Cardinality({ i \in 1..Len(bTorrents) : bTorrents[i] = OtherHash }) < MaxOther
   /\ bTorrents' = Append(bTorrents, OtherHash)
   /\ UNCHANGED outsideAdd
   /\ UNCHANGED <<inputs, handler, bPending, bState, bPrio>>

(* ------------------------------ the handler ---------------------------- *)
\* lines 5-15: the parameter checks before the try block
Validate ==
   /\ pc = "Idle"
   /\ IF backendUrl = ""
         THEN /\ response' = BadRequest("Missing backendUrl parameter")
              /\ pc' = "Done"
      ELSE IF ~metadata.present
         THEN /\ response' = BadRequest("Missing torrent.metadata")
              /\ pc' = "Done"
      ELSE IF ~selectedFiles.present
         THEN /\ response' = BadRequest("Missing data.selectedFiles")
              /\ pc' = "Done"
      ELSE /\ pc' = "Registering"
           /\ UNCHANGED response
   /\ UNCHANGED outsideAdd
   /\ UNCHANGED <<inputs, retrys, url, updated, requests, backend>>

\* lines 19-35: the add request, sent with its outcome `added`
Registering(added) ==
   /\ pc = "Registering"
   /\ requests' = Append(requests, Request("add", AddFormData([paused |-> paused]), added, FALSE))
   /\ IF added = 0
         THEN /\ url' = AddUrl
              /\ response' = Caught("fetch failed", AddUrl)
              /\ pc' = "Done"
              /\ UNCHANGED <<retrys, bPending>>
      ELSE IF ~Ok(added)
         THEN /\ url' = AddUrl
              /\ response' = Caught("Failed to add torrent", AddUrl)
              /\ pc' = "Done"
              /\ UNCHANGED <<retrys, bPending>>
      ELSE /\ url' = InfoUrl
           /\ retrys' = MaxRetrys
           /\ pc' = "AwaitingRegistration"
           /\ bPending' = requests'[Len(requests')].stopped
           /\ UNCHANGED response
   /\ UNCHANGED outsideAdd
   /\ UNCHANGED <<inputs, updated, bTorrents, bState, bPrio>>

\* lines 36-47: one round of the do-while loop, and the check after the loop
\* when this round leaves it; threw: the fetch itself failed, parsed: the
\* body was JSON
AwaitingRegistration(threw, parsed) ==
   /\ pc = "AwaitingRegistration"
   /\ LET entry == [parsed |-> parsed, listing |-> IF parsed THEN Latest(bTorrents) ELSE <<>>]
          hit == parsed /\ Latest(bTorrents) = <<metadata.hash>>
      IN IF threw
            THEN /\ requests' = Append(requests, Request("info", NoFields, 0, FALSE))
                 /\ response' = Caught("fetch failed", url)
                 /\ pc' = "Done"
                 /\ UNCHANGED <<retrys, updated>>
         ELSE /\ requests' = Append(requests, Request("info", NoFields, 200, hit))
              /\ updated' = entry
              /\ IF EntryMatches(entry, metadata.hash)
                    THEN \* break
                         /\ UNCHANGED retrys
                         /\ IF NotFound(retrys)
                               THEN /\ response' = Caught("Couldn't find torrent", url)
                                    /\ pc' = "Done"
                               ELSE /\ pc' = "ApplyingFilePriorities"
                                    /\ UNCHANGED response
                    ELSE /\ retrys' = Decrement(retrys)
                         /\ IF LoopAgain(retrys')
                               THEN UNCHANGED <<pc, response>>
                            ELSE IF NotFound(retrys')
                               THEN /\ response' = Caught("Couldn't find torrent", url)
                                    /\ pc' = "Done"
                            ELSE /\ pc' = "ApplyingFilePriorities"
                                 /\ UNCHANGED response
   /\ UNCHANGED outsideAdd
   /\ UNCHANGED <<inputs, url, backend>>

\* lines 50-70: the cherry-picking of the files; filtered is the outcome of
\* the filePrio request when one is sent
ApplyingFilePriorities(filtered) ==
   /\ pc = "ApplyingFilePriorities"
   /\ IF FewerSelected(selectedFiles.paths, metadata.files)
         THEN LET joined == Joined(metadata.files)
                  difference == Difference(joined, selectedFiles.paths)
                  ids == Ids(joined, difference)
              IN IF Len(ids) = 0
                    THEN /\ response' = Caught("Failed to exclude any files", url)
                         /\ pc' = "Done"
                         /\ UNCHANGED <<url, requests, bPrio>>
                 ELSE /\ url' = PrioUrl
                      /\ requests' = Append(requests,
                            Request("filePrio", PrioFormData(metadata.hash, ids), filtered, FALSE))
                      /\ pc' = AfterFilePrio(filtered)
                      /\ IF filtered = 0
                            THEN /\ response' = Caught("fetch failed", PrioUrl)
                                 /\ UNCHANGED bPrio
                         ELSE IF ~Ok(filtered)
                            THEN /\ response' = PrioRejected(PrioUrl, filtered)
                                 /\ UNCHANGED bPrio
                         ELSE /\ bPrio' = { SplitIds(requests'[Len(requests')].id)[k] :
                                               k \in 1..Len(SplitIds(requests'[Len(requests')].id)) }
                              /\ UNCHANGED response
      ELSE /\ pc' = "Starting"
           /\ UNCHANGED <<url, requests, response, bPrio>>
   /\ UNCHANGED outsideAdd
   /\ UNCHANGED <<inputs, retrys, updated, bPending, bTorrents, bState>>

\* lines 72-82: the start request unless the caller asked for a paused
\* torrent, and the success response; started is the outcome of the request
Starting(started) ==
   /\ pc = "Starting"
   /\ IF ShouldStart(paused)
         THEN /\ url' = StartUrl
              /\ requests' = Append(requests, Request("start", StartFormData(metadata.hash), started, FALSE))
              /\ IF started = 0
                    THEN /\ response' = Caught("fetch failed", StartUrl)
                         /\ UNCHANGED bState
                 ELSE IF ~Ok(started)
                    THEN /\ response' = Caught("Failed to start torrent", StartUrl)
                         /\ UNCHANGED bState
                 ELSE /\ response' = Success(metadata.hash)
                      /\ bState' = IF requests'[Len(requests')].hashes = Hash /\ bState # "absent"
                                      THEN "running" ELSE bState
      ELSE /\ response' = Success(metadata.hash)
           /\ UNCHANGED <<url, requests, bState>>
   /\ pc' = "Done"
   /\ UNCHANGED outsideAdd
   /\ UNCHANGED <<inputs, retrys, updated, bPending, bTorrents, bPrio>>

Next ==
   \/ Validate
   \/ \E added \in Outcomes : Registering(added)
   \/ \E threw \in BOOLEAN, parsed \in BOOLEAN : AwaitingRegistration(threw, parsed)
   \/ \E filtered \in Outcomes : ApplyingFilePriorities(filtered)
   \/ \E started \in Outcomes : Starting(started)
   \/ BackendRegister
   \/ BackendOther

Spec == Init /\ [][Next]_vars

(* ------- one run, a client that may disconnect, a silent backend ------ *)
\* the stages in which the handler awaits a fetch
Stages == {"Registering", "AwaitingRegistration", "ApplyingFilePriorities", "Starting"}

\* whether the fetch of a stage is given a timeout or an abort signal: the
\* four fetch calls of the route (lines 29, 38, 67, 77) pass neither
HasTimeout(stage) == FALSE

\* whether the handler looks at the request's abort signal before going on:
\* request.signal is not read anywhere in the route
ChecksAbort == FALSE

EnvInit ==
   /\ backendUrl = BackendUrl
   /\ metadata = [present |-> TRUE, hash |-> Hash,
                  files |-> <<[path |-> <<"a">>, length |-> 1], [path |-> <<"d", "b">>, length |-> 2]>>]
   /\ selectedFiles = [present |-> TRUE, paths |-> {"a"}]
   /\ paused \in BOOLEAN
   /\ pc = "Idle"
   /\ retrys = 0
   /\ url = ""
   /\ updated = NoBody
   /\ requests = <<>>
   /\ response = NoResponse
   /\ bPending = "none"
   /\ bTorrents = <<>>
   /\ bState = "absent"
   /\ bPrio = {}
   /\ ConcIdle
   /\ EnvIdle
   /\ MetaIdle
   /\ DialogIdle
   /\ RestIdle

\* the client goes away (request abort) while the handler is at work
ClientAbort ==
   /\ aborted = ""
   /\ pc \in Stages
   /\ aborted' = pc
   /\ UNCHANGED <<addVars, conc, meta, dialog, rest, hung>>

\* the backend never answers the request the handler is about to await
FetchHangs ==
   /\ ~hung
   /\ pc \in Stages
   /\ ~HasTimeout(pc)
   /\ hung' = TRUE
   /\ UNCHANGED <<addVars, conc, meta, dialog, rest, aborted>>

\* a step of the handler: it goes on when the fetch it awaits settles, and,
\* if it checked for an abort, only while the client is there
HandlerStep ==
   /\ ~hung
   /\ ChecksAbort => aborted = ""
   /\ \/ Validate
      \/ \E added \in Outcomes : Registering(added)
      \/ \E threw \in BOOLEAN, parsed \in BOOLEAN : AwaitingRegistration(threw, parsed)
      \/ \E filtered \in Outcomes : ApplyingFilePriorities(filtered)
      \/ \E started \in Outcomes : Starting(started)

EnvNext ==
   \/ HandlerStep
   \/ BackendRegister
   \/ ClientAbort
   \/ FetchHangs

\* the event loop runs the handler's continuation whenever its fetch settles
SpecEnv == EnvInit /\ [][EnvNext]_vars /\ WF_vars(HandlerStep)

(* ------------- two runs of the handler against one backend ------------ *)
\* The registration stages (lines 28-47) of two requests for different
\* torrents; every fetch is answered and every body is JSON here.
ConcInit ==
   /\ backendUrl = BackendUrl
   /\ metadata = [present |-> TRUE, hash |-> Hash, files |-> <<>>]
   /\ selectedFiles = [present |-> TRUE, paths |-> {}]
   /\ paused = TRUE
   /\ pc = "Idle"
   /\ retrys = 0
   /\ url = ""
   /\ updated = NoBody
   /\ requests = <<>>
   /\ response = NoResponse
   /\ bPending = "none"
   /\ bTorrents = <<>>
   /\ bState = "absent"
   /\ bPrio = {}
   /\ cPc = [r \in Reqs |-> "Registering"]
   /\ cRetrys = [r \in Reqs |-> 0]
   /\ cPending = {}
   /\ cTorrents = <<>>
   /\ EnvIdle
   /\ MetaIdle
   /\ DialogIdle
   /\ RestIdle

\* lines 28-35 of run r: the add request, accepted by the backend
ConcRegistering(r) ==
   /\ cPc[r] = "Registering"
   /\ cPending' = cPending \cup {CHash(r)}
   /\ cRetrys' = [cRetrys EXCEPT ![r] = MaxRetrys]
   /\ cPc' = [cPc EXCEPT ![r] = "AwaitingRegistration"]
   /\ UNCHANGED outsideConc
   /\ UNCHANGED <<cTorrents>>

\* lines 36-47 of run r: one round of the polling loop and the check after it
ConcAwaitingRegistration(r) ==
   /\ cPc[r] = "AwaitingRegistration"
   /\ LET entry == [parsed |-> TRUE, listing |-> Latest(cTorrents)]
      IN IF EntryMatches(entry, CHash(r))
            THEN /\ UNCHANGED cRetrys
                 /\ cPc' = [cPc EXCEPT ![r] = IF NotFound(cRetrys[r]) THEN "Failed" ELSE "ApplyingFilePriorities"]
            ELSE /\ cRetrys' = [cRetrys EXCEPT ![r] = Decrement(cRetrys[r])]
                 /\ cPc' = [cPc EXCEPT ![r] =
                              IF LoopAgain(cRetrys'[r]) THEN "AwaitingRegistration"
                              ELSE IF NotFound(cRetrys'[r]) THEN "Failed"
                              ELSE "ApplyingFilePriorities"]
   /\ UNCHANGED outsideConc
   /\ UNCHANGED <<cPending, cTorrents>>

\* the backend lists an accepted torrent; it becomes the most recently added
ConcBackendRegister(h) ==
   /\ h \in cPending
   /\ cPending' = cPending \ {h}
   /\ cTorrents' = Append(cTorrents, h)
   /\ UNCHANGED outsideConc
   /\ UNCHANGED <<cPc, cRetrys>>

ConcNext ==
   \/ \E r \in Reqs : ConcRegistering(r)
   \/ \E r \in Reqs : ConcAwaitingRegistration(r)
   \/ \E h \in {CHash(r) : r \in Reqs} : ConcBackendRegister(h)

SpecConc == ConcInit /\ [][ConcNext]_vars

(* ---------- GET /api/v2/torrents/files: getTorrentMetadata ------------ *)
\* a .torrent URL, as opposed to the magnet URI TorrentUrl
DescriptorUrl == "http://tracker/t.torrent"
\* url.startsWith("magnet:")
IsMagnet(u) == u \in {TorrentUrl}
\* const source = url.startsWith("magnet:") ? "magnet" : "torrent"
Source(u) == IF IsMagnet(u) THEN "magnet" ELSE "torrent"

\* JavaScript values that cannot be written as a number: undefined, and an
\* object found where a number is expected
Undefined == -1
NotANumber == -2

\* A JavaScript object is the sequence of its properties in insertion order,
\* which is the order Object.entries lists them in (no key enumerated here is
\* an integer index).  A property holds a number, an object or a path array.
NumProp(k, n)  == [key |-> k, tag |-> "number", num |-> n, obj |-> <<>>, path |-> <<>>]
ObjProp(k, o)  == [key |-> k, tag |-> "object", num |-> 0, obj |-> o,    path |-> <<>>]
PathProp(k, q) == [key |-> k, tag |-> "array",  num |-> 0, obj |-> <<>>, path |-> q]

\* o[k] !== undefined
Has(o, k) == \E i \in 1..Len(o) : o[i].key = k
\* o[k]
Prop(o, k) == o[CHOOSE i \in 1..Len(o) : o[i].key = k]
\* o[k] = value: an existing key keeps its place, a new one goes last
Put(o, prop) ==
   IF Has(o, prop.key) THEN [i \in 1..Len(o) |-> IF o[i].key = prop.key THEN prop ELSE o[i]]
   ELSE Append(o, prop)

\* file entries of the torrents that are resolved: those of the add route and
\* a file that is called "length"
MetaEntries == FileEntries \cup { [path |-> <<"d", "length">>, length |-> 4] }
MetaLists(n) == UNION { [1..k -> MetaEntries] : k \in 0..n }
\* info.length of a single-file torrent
SingleLength == 9
\* the keys of the info dictionary that say where its files are
InfoKeys == {"file tree", "files", "length"}

RECURSIVE SetFile(_, _, _)
\* the inner loop of buildV1FileTree: current[dir] = current[dir] || {} along
\* the directories of the path, then current[last] = leaf
SetFile(current, path, leaf) ==
   IF Len(path) = 1 THEN Put(current, ObjProp(path[1], leaf))
   ELSE LET dir == path[1]
            sub == IF Has(current, dir) THEN Prop(current, dir).obj ELSE <<>>
        IN  Put(current, ObjProp(dir, SetFile(sub, Tail(path), leaf)))

RECURSIVE BuildV1From(_, _)
BuildV1From(tree, files) ==
   IF files = <<>> THEN tree
   ELSE BuildV1From(SetFile(tree, Head(files).path, <<NumProp("length", Head(files).length)>>), Tail(files))

\* buildV1FileTree: nested objects, a file is { length }
buildV1FileTree(files) == BuildV1From(<<>>, files)

RECURSIVE FileTreeFrom(_, _)
\* the "file tree" dictionary of a v2 info dictionary listing the files in
\* this order: a file is { "": { length } }
FileTreeFrom(tree, files) ==
   IF files = <<>> THEN tree
   ELSE FileTreeFrom(SetFile(tree, Head(files).path,
                             <<ObjProp("", <<NumProp("length", Head(files).length)>>)>>), Tail(files))

RECURSIVE buildV2FileTree(_, _)
\* buildV2FileTree: a value with a "" key becomes { length, pieces, path }
buildV2FileTree(tree, path) ==
   IF tree = <<>> THEN <<>>
   ELSE LET key == Head(tree).key
            value == Head(tree).obj
            currentPath == Append(path, key)
            node == IF Has(value, "")
                    THEN <<NumProp("length", Prop(Prop(value, "").obj, "length").num),
                           NumProp("pieces", 0),
                           PathProp("path", currentPath)>>
                    ELSE buildV2FileTree(value, currentPath)
        IN  <<ObjProp(key, node)>> \o buildV2FileTree(Tail(tree), path)

\* node.length !== undefined
HasLength(node) == Has(node.obj, "length")

\* node.length as the length of a file entry
NodeLength(node) ==
   IF Prop(node.obj, "length").tag = "number" THEN Prop(node.obj, "length").num ELSE NotANumber

RECURSIVE flattenV2FileTree(_, _)
\* flattenV2FileTree: a node with a length is a file, any other is descended into
flattenV2FileTree(tree, basePath) ==
   IF tree = <<>> THEN <<>>
   ELSE LET node == Head(tree)
            currentPath == Append(basePath, node.key)
        IN  (IF HasLength(node) THEN <<[path |-> currentPath, length |-> NodeLength(node)]>>
             ELSE flattenV2FileTree(node.obj, currentPath))
            \o flattenV2FileTree(Tail(tree), basePath)

RECURSIVE SumLengths(_)
\* files.reduce((sum, f) => sum + f.length, 0)
SumLengths(files) == IF files = <<>> THEN 0 ELSE Head(files).length + SumLengths(Tail(files))

\* the digests of the bencoded info dictionary, hex
Sha1(i) == "sha1:" \o i.name
Sha256(i) == "sha256:" \o i.name

\* v2Hash, null being "": info["meta version"] !== 2 ? null : sha256(...)
V2Hash_Always(i) == Sha256(i)

V2Hash(i) == IF i.metaVersion # 2 THEN "" ELSE Sha256(i)

\* the branches of "Parse files" in the order the code tries them
Branch_FilesFirst(i) ==
   IF "files" \in i.keys THEN "multi"
   ELSE IF "file tree" \in i.keys THEN "v2"
   ELSE "single"

\* which of the three branches of "Parse files" is taken
Branch(i) ==
   IF "file tree" \in i.keys THEN "v2"
   ELSE IF "files" \in i.keys THEN "multi"
   ELSE "single"

\* the record getTorrentMetadata builds from torrent.info
Metadata(source, i) ==
   LET v1Hash == Sha1(i)
       v2Hash == V2Hash(i)
       length == IF "length" \in i.keys THEN SingleLength ELSE Undefined
       v2Tree == buildV2FileTree(FileTreeFrom(<<>>, i.files), <<>>)
       single == <<[path |-> <<i.name>>, length |-> length]>>
       files == CASE Branch(i) = "v2" -> flattenV2FileTree(v2Tree, <<>>)
                  [] Branch(i) = "multi" -> i.files
                  [] OTHER -> single
       fileTree == CASE Branch(i) = "v2" -> v2Tree
                     [] OTHER -> buildV1FileTree(files)
       totalLength == CASE Branch(i) = "single" -> length
                        [] OTHER -> SumLengths(files)
   IN  [source |-> source, hash |-> v1Hash, v1Hash |-> v1Hash, v2Hash |-> v2Hash,
        name |-> i.name, length |-> totalLength, files |-> files, fileTree |-> fileTree]

\* clearTimeout(timeout)
ClearTimeout_Forgotten(t) == t

ClearTimeout(t) == IF t = "armed" THEN "cleared" ELSE t

\* how often client.destroy() is called on an exit path: once before the
\* return, once in the catch block, and once more in the timer or in the
\* error listener that rejected the promise
Destroys_LeakOnReturn(exit) ==
   CASE exit = "return" -> 0
     [] exit \in {"timeout", "clientError"} -> 2
     [] OTHER -> 1

Destroys(exit) ==
   CASE exit = "return" -> 1
     [] exit \in {"timeout", "clientError"} -> 2
     [] OTHER -> 1

\* GET's answer to an error of getTorrentMetadata
Failed502(u) == [status |-> 502, error |-> "Failed to get metadata for " \o u, body |-> NoRecord]
MetaBadRequest(error) == [status |-> 400, error |-> error, body |-> NoRecord]

\* the info dictionaries a url can lead to
Infos ==
   {NoInfo} \cup
   { [present |-> TRUE, keys |-> k, metaVersion |-> v, name |-> TorrentName, files |-> l] :
        k \in SUBSET InfoKeys, v \in {1, 2}, l \in MetaLists(MaxFiles) }

\* the add route at rest
AddIdle ==
   /\ backendUrl = BackendUrl
   /\ metadata = [present |-> TRUE, hash |-> Hash, files |-> <<>>]
   /\ selectedFiles = [present |-> TRUE, paths |-> {}]
   /\ paused = TRUE
   /\ pc = "Idle"
   /\ retrys = 0
   /\ url = ""
   /\ updated = NoBody
   /\ requests = <<>>
   /\ response = NoResponse
   /\ bPending = "none"
   /\ bTorrents = <<>>
   /\ bState = "absent"
   /\ bPrio = {}

MetaInit ==
   /\ AddIdle
   /\ ConcIdle
   /\ EnvIdle
   /\ DialogIdle
   /\ RestIdle
   /\ query \in [backendUrl : {"", BackendUrl}, url : {"", TorrentUrl, DescriptorUrl}]
   /\ info \in Infos
   /\ mpc = "Idle"
   /\ destroyed = 0
   /\ timeout = "none"
   /\ resolved = NoResolution
   /\ metaResponse = NoMetaResponse
   /\ events = <<>>

\* an exception leaves the try block: catch { client.destroy(); throw error },
\* and GET answers 502
Throws(exit, error) ==
   /\ mpc' = "Done"
   /\ destroyed' = destroyed + Destroys(exit)
   /\ resolved' = [kind |-> "threw", error |-> error, record |-> NoRecord]
   /\ metaResponse' = Failed502(query.url)

\* GET up to the first await of getTorrentMetadata
MetaGET ==
   /\ mpc = "Idle"
   /\ IF query.backendUrl = "" THEN
         /\ mpc' = "Done"
         /\ metaResponse' = MetaBadRequest("Missing parameter backendUrl")
         /\ UNCHANGED timeout
      ELSE IF query.url = "" THEN
         /\ mpc' = "Done"
         /\ metaResponse' = MetaBadRequest("Missing parameter hash")
         /\ UNCHANGED timeout
      ELSE IF Source(query.url) = "magnet" THEN
         /\ mpc' = "Resolving"
         /\ timeout' = "armed"
         /\ UNCHANGED metaResponse
      ELSE
         /\ mpc' = "Fetching"
         /\ UNCHANGED <<timeout, metaResponse>>
   /\ UNCHANGED <<query, info, destroyed, resolved, events>>
   /\ UNCHANGED outsideMeta

\* await fetch(url, { signal: AbortSignal.timeout(15000) }); 0 is a fetch
\* that throws, the abort after 15 s included
MetaFetch(status) ==
   /\ mpc = "Fetching"
   /\ IF status = 0 THEN Throws("throw", "fetch failed")
      ELSE IF ~Ok(status) THEN Throws("throw", "Failed to fetch .torrent file")
      ELSE /\ mpc' = "Resolving"
           /\ UNCHANGED <<destroyed, resolved, metaResponse>>
   /\ UNCHANGED <<query, info, timeout, events>>
   /\ UNCHANGED outsideMeta

\* the callback of client.add, and the rest of getTorrentMetadata and of GET
MetaTorrent ==
   /\ mpc = "Resolving"
   /\ events' = Append(events, "torrent")
   /\ timeout' = IF IsMagnet(query.url) THEN ClearTimeout(timeout) ELSE timeout
   /\ IF ~info.present THEN Throws("throw", "Missing info dictionary")
      ELSE LET record == Metadata(Source(query.url), info)
           IN  /\ mpc' = "Done"
               /\ destroyed' = destroyed + Destroys("return")
               /\ resolved' = [kind |-> "returned", error |-> "", record |-> record]
               /\ metaResponse' = [status |-> 200, error |-> "", body |-> record]
   /\ UNCHANGED <<query, info>>
   /\ UNCHANGED outsideMeta

\* the 30 s timer of the magnet branch fires
MetaTimeout ==
   /\ mpc = "Resolving"
   /\ timeout = "armed"
   /\ events' = Append(events, "timeout")
   /\ timeout' = "fired"
   /\ Throws("timeout", "Magnet resolution timeout")
   /\ UNCHANGED <<query, info>>
   /\ UNCHANGED outsideMeta

\* client.on("error", ...)
MetaClientError ==
   /\ mpc = "Resolving"
   /\ events' = Append(events, "error")
   /\ timeout' = IF IsMagnet(query.url) THEN ClearTimeout(timeout) ELSE timeout
   /\ Throws("clientError", "client error")
   /\ UNCHANGED <<query, info>>
   /\ UNCHANGED outsideMeta

\* what the swarm client and the timer may still do once the promise of the
\* magnet branch is settled: resolve and reject have no effect any more, the
\* rest of the callbacks has
MetaLate(event) ==
   /\ mpc = "Done"
   /\ IsMagnet(query.url)
   /\ events # <<>>
   /\ Len(events) < MaxEvents
   /\ \A i \in 1..Len(events) : events[i] # event
   /\ event = "timeout" => timeout = "armed"
   /\ events' = Append(events, event)
   /\ timeout' = IF event = "timeout" THEN "fired" ELSE ClearTimeout(timeout)
   /\ destroyed' = IF event = "torrent" THEN destroyed ELSE destroyed + 1
   /\ UNCHANGED <<query, info, mpc, resolved, metaResponse>>
   /\ UNCHANGED outsideMeta

MetaNext ==
   \/ MetaGET
   \/ \E status \in Outcomes : MetaFetch(status)
   \/ MetaTorrent
   \/ MetaTimeout
   \/ MetaClientError
   \/ \E event \in {"torrent", "error", "timeout"} : MetaLate(event)

SpecMeta == MetaInit /\ [][MetaNext]_vars

(* -------------------- the download options dialog --------------------- *)
\* the path segments "/"-separated paths are made of
Segments == {"", "a", "b", "c", "d"}
\* path.split("/")
Split(p) == CHOOSE q \in UNION { [1..k -> Segments] : k \in 1..2 } : Join(q) = p

\* Array.from(node.children.values()).reduce((sum, child) => sum + ..., 0)
RECURSIVE SumSizes(_)
SumSizes(nodes) == IF nodes = <<>> THEN 0 ELSE Head(nodes).size + SumSizes(Tail(nodes))

\* the size calculateFolderSize gives a node whose children have theirs
NodeSize_Stored(node, children) == node.size

NodeSize(node, children) == IF node.isFile THEN node.size ELSE SumSizes(children)

RECURSIVE InsertPart(_, _, _, _)
\* the body of parts.forEach for parts[index] under currentNode, and the
\* rest of the parts below the child it moves to
InsertPart(currentNode, parts, index, length) ==
   LET part == parts[index]
       last == index = Len(parts)
       kids == currentNode.children
       has == \E i \in 1..Len(kids) : kids[i].name = part
       at == IF has THEN CHOOSE i \in 1..Len(kids) : kids[i].name = part ELSE Len(kids) + 1
       childNode == IF has THEN kids[at]
                    ELSE Node(part, Join(SubSeq(parts, 1, index)), 0, last, <<>>)
       moved == IF last THEN [childNode EXCEPT !.size = length]
                ELSE InsertPart(childNode, parts, index + 1, length)
   IN  [currentNode EXCEPT !.children =
          IF has THEN [i \in 1..Len(kids) |-> IF i = at THEN moved ELSE kids[i]]
          ELSE Append(kids, moved)]

RECURSIVE InsertFiles(_, _)
\* files.forEach(file => ...)
InsertFiles(root, list) ==
   IF list = <<>> THEN root
   ELSE InsertFiles(InsertPart(root, Head(list).path, 1, Head(list).length), Tail(list))

RECURSIVE calculateFolderSize(_)
\* calculateFolderSize: the node with the sizes of its directories set
calculateFolderSize(node) ==
   LET children == [i \in 1..Len(node.children) |-> calculateFolderSize(node.children[i])]
   IN  [node EXCEPT !.children = children, !.size = NodeSize(node, children)]

\* buildFileTree
buildFileTree(list) == calculateFolderSize(InsertFiles(Node("/", "/", 0, FALSE, <<>>), list))

RECURSIVE Traverse(_)
RECURSIVE TraverseAll(_)
\* traverse: the nodes below and including one node, depth first
Traverse(node) == <<node>> \o TraverseAll(node.children)
TraverseAll(nodes) == IF nodes = <<>> THEN <<>> ELSE Traverse(Head(nodes)) \o TraverseAll(Tail(nodes))

\* the paths traverse collects
PathsOf(node) == { Traverse(node)[i].path : i \in 1..Len(Traverse(node)) }

\* the allFilePaths memo
allFilePaths == IF ~dlgFiles.loaded THEN {TorrentName} ELSE PathsOf(dlgTree)

\* findNode found a node for the path
Found(tree, path) == \E i \in 1..Len(Traverse(tree)) : Traverse(tree)[i].path = path
\* findNode: the first node with the path, depth first
findNode(tree, path) ==
   Traverse(tree)[CHOOSE i \in 1..Len(Traverse(tree)) :
                     /\ Traverse(tree)[i].path = path
                     /\ \A j \in 1..(i - 1) : Traverse(tree)[j].path # path]

\* parts.slice(0, i).join("/") for the i the loops of handleSelectionChange run over
Parents_SkipFirst(path, from, to) == { Join(SubSeq(Split(path), 1, i)) : i \in (from + 1)..to }

Parents(path, from, to) == { Join(SubSeq(Split(path), 1, i)) : i \in from..to }

\* the dialog is opened for a torrent: nothing is loaded, the torrent's name
\* is selected
DialogInit ==
   /\ AddIdle
   /\ ConcIdle
   /\ EnvIdle
   /\ MetaIdle
   /\ RestIdle
   /\ dlgFiles = [loaded |-> FALSE, list |-> <<>>]
   /\ dlgTree = NoTree
   /\ dlgSelected = {TorrentName}
   /\ dlgSent = NotSent

\* fetchFiles delivers the file list: setFiles, the memos and the effect that
\* selects every path
FetchFiles(list) ==
   /\ ~dlgFiles.loaded
   /\ dlgFiles' = [loaded |-> TRUE, list |-> list]
   /\ dlgTree' = buildFileTree(list)
   /\ dlgSelected' = PathsOf(dlgTree')
   /\ UNCHANGED dlgSent
   /\ UNCHANGED outsideDialog

handleSelectionChange(path, selected) ==
   /\ IF ~dlgFiles.loaded THEN
         dlgSelected' = IF selected THEN dlgSelected \cup {path} ELSE dlgSelected \ {path}
      ELSE IF ~Found(dlgTree, path) THEN
         UNCHANGED dlgSelected
      ELSE
         LET affectedPaths == PathsOf(findNode(dlgTree, path))
             parts == Split(path)
         IN  dlgSelected' =
                IF selected
                THEN dlgSelected \cup affectedPaths
                        \cup (Parents(path, 1, Len(parts)) \cap allFilePaths)
                ELSE (dlgSelected \ affectedPaths) \ Parents(path, 1, Len(parts) - 1)
   /\ UNCHANGED <<dlgFiles, dlgTree, dlgSent>>
   /\ UNCHANGED outsideDialog

handleSelectAll ==
   /\ dlgSelected' = allFilePaths
   /\ UNCHANGED <<dlgFiles, dlgTree, dlgSent>>
   /\ UNCHANGED outsideDialog

handleSelectNone ==
   /\ dlgSelected' = {}
   /\ UNCHANGED <<dlgFiles, dlgTree, dlgSent>>
   /\ UNCHANGED outsideDialog

\* files.map(f => f.path.join("/"))
FilePaths(list) == { Join(list[i].path) : i \in 1..Len(list) }

\* selectedFileNames of onSubmit
SelectedFileNames(selection) ==
   IF dlgFiles.loaded THEN { q \in selection : q \in FilePaths(dlgFiles.list) }
   ELSE { q \in selection : q = TorrentName }

\* onSubmit: the body posted to the add endpoint
onSubmit ==
   /\ ~dlgSent.sent
   /\ dlgSent' = [sent |-> TRUE, selectedFiles |-> SelectedFileNames(dlgSelected)]
   /\ UNCHANGED <<dlgFiles, dlgTree, dlgSelected>>
   /\ UNCHANGED outsideDialog

\* the paths handleSelectionChange is applied to: those of the tree, and the
\* torrent's name, which is no path of a loaded tree
Clickable == allFilePaths \cup {TorrentName}

DialogNext ==
   \/ \E list \in FileLists(MaxFiles) : FetchFiles(list)
   \/ \E path \in Clickable, selected \in BOOLEAN : handleSelectionChange(path, selected)
   \/ handleSelectAll
   \/ handleSelectNone
   \/ onSubmit

SpecDialog == DialogInit /\ [][DialogNext]_vars

(* ------------- the dialog over several openings ------------------------ *)
\* the torrents the dialog is opened for
Torrents == {1, 2}
\* metadata.files of each of them
TorrentFiles(t) ==
   IF t = 1 THEN <<[path |-> <<"a">>, length |-> 1], [path |-> <<"d", "b">>, length |-> 2]>>
   ELSE <<[path |-> <<"d", "c">>, length |-> 3]>>

\* the dialog is mounted and closed, no torrent has been opened
LifeInit ==
   /\ AddIdle
   /\ ConcIdle
   /\ EnvIdle
   /\ MetaIdle
   /\ dlgFiles = [loaded |-> FALSE, list |-> <<>>]
   /\ dlgTree = NoTree
   /\ dlgSelected = {}
   /\ dlgSent = NotSent
   /\ dlgTorrent = 0
   /\ isOpen = FALSE
   /\ isLoadingFiles = FALSE
   /\ inFlight = {}
   /\ cached = {}
   /\ StreamIdle
   /\ ReconnIdle

\* the effect that resets the form: it runs when torrent, files,
\* isLoadingFiles or allFilePaths changed, and selects allFilePaths
ResetSelection ==
   IF dlgTorrent' # dlgTorrent \/ dlgFiles' # dlgFiles \/ isLoadingFiles' # isLoadingFiles
   THEN dlgSelected' = IF dlgFiles'.loaded THEN PathsOf(dlgTree') ELSE {TorrentName}
   ELSE UNCHANGED dlgSelected

\* the parent opens the dialog for a torrent; fetchFiles runs up to its await,
\* or returns at once when the torrent has its metadata.  (One fetch per
\* torrent is followed at a time.)
Open(t) ==
   /\ ~isOpen
   /\ t \notin inFlight
   /\ dlgTorrent' = t
   /\ isOpen' = TRUE
   /\ IF t \in cached THEN
         UNCHANGED <<isLoadingFiles, dlgFiles, dlgTree, inFlight>>
      ELSE
         /\ isLoadingFiles' = TRUE
         /\ dlgFiles' = [loaded |-> FALSE, list |-> <<>>]
         /\ dlgTree' = NoTree
         /\ inFlight' = inFlight \cup {t}
   /\ ResetSelection
   /\ UNCHANGED <<cached, dlgSent>>
   /\ UNCHANGED outsideLife

\* the dialog is closed; fetchFiles returns at its first line
Close ==
   /\ isOpen
   /\ isOpen' = FALSE
   /\ UNCHANGED <<dlgTorrent, isLoadingFiles, inFlight, cached, dialog>>
   /\ UNCHANGED outsideLife

\* the metadata fetch started for torrent t settles: the rest of fetchFiles
FilesResponse(t, ok) ==
   /\ t \in inFlight
   /\ inFlight' = inFlight \ {t}
   /\ IF ok THEN
         /\ cached' = cached \cup {t}
         /\ dlgFiles' = [loaded |-> TRUE, list |-> TorrentFiles(t)]
         /\ dlgTree' = buildFileTree(TorrentFiles(t))
      ELSE
         /\ dlgFiles' = [loaded |-> FALSE, list |-> <<>>]
         /\ dlgTree' = NoTree
         /\ UNCHANGED cached
   /\ isLoadingFiles' = FALSE
   /\ UNCHANGED <<dlgTorrent, isOpen, dlgSent>>
   /\ ResetSelection
   /\ UNCHANGED outsideLife

LifeNext ==
   \/ \E t \in Torrents : Open(t)
   \/ Close
   \/ \E t \in Torrents, ok \in BOOLEAN : FilesResponse(t, ok)
   \/ isOpen /\ \E path \in Clickable, selected \in BOOLEAN : handleSelectionChange(path, selected)
   \/ isOpen /\ handleSelectAll
   \/ isOpen /\ handleSelectNone

SpecLife == LifeInit /\ [][LifeNext]_vars

(* ---------------- GET /api/torrents: the event stream ------------------ *)
\* controller.enqueue succeeds: the stream is neither closed nor cancelled
CanEnqueue == ~sClosed /\ ~sCancelled

\* what a fetchRSS does once its fetch has settled with `out`: on success two
\* events (torrents, status), on failure one (error); when enqueue throws,
\* the sendEvent of the catch block throws too and fetchRSS rejects
Sent(out) ==
   IF ~CanEnqueue THEN [n |-> 0, threw |-> TRUE]
   ELSE IF Ok(out) THEN [n |-> 2, threw |-> FALSE]
   ELSE [n |-> 1, threw |-> FALSE]

\* clearInterval(intervalId)
ClearInterval(id) == IF id = "set" THEN "cleared" ELSE id

StreamInit ==
   /\ AddIdle
   /\ ConcIdle
   /\ EnvIdle
   /\ MetaIdle
   /\ DialogIdle
   /\ LifeIdle
   /\ ReconnIdle
   /\ sBackendUrl \in {"", BackendUrl}
   /\ sPhase = "Idle"
   /\ periodic = FALSE
   /\ intervalId = "unset"
   /\ listening = FALSE
   /\ sAborted = FALSE
   /\ sCancelled = FALSE
   /\ sClosed = FALSE
   /\ enqueued = 0
   /\ ticks = 0

\* GET up to the first await of start()
StreamGET ==
   /\ sPhase = "Idle"
   /\ IF sBackendUrl = "" THEN
         /\ enqueued' = enqueued + 1
         /\ sClosed' = TRUE
         /\ sPhase' = "Ended"
      ELSE
         /\ sPhase' = "Initial"
         /\ UNCHANGED <<enqueued, sClosed>>
   /\ UNCHANGED <<sBackendUrl, periodic, intervalId, listening, sAborted, sCancelled, ticks>>
   /\ UNCHANGED outsideStream

\* await fetchRSS() of start() finishes: setInterval and the abort listener
\* follow unless fetchRSS rejected
InitialFetched(out) ==
   /\ sPhase = "Initial"
   /\ enqueued' = enqueued + Sent(out).n
   /\ IF Sent(out).threw THEN
         /\ sPhase' = "Failed"
         /\ UNCHANGED <<intervalId, listening>>
      ELSE
         /\ sPhase' = "Started"
         /\ intervalId' = "set"
         /\ listening' = TRUE
   /\ UNCHANGED <<sBackendUrl, periodic, sAborted, sCancelled, sClosed, ticks>>
   /\ UNCHANGED outsideStream

\* the interval fires and fetchRSS starts its fetch
Tick ==
   /\ intervalId = "set"
   /\ ~periodic
   /\ ticks < MaxTicks
   /\ periodic' = TRUE
   /\ ticks' = ticks + 1
   /\ UNCHANGED <<sBackendUrl, sPhase, intervalId, listening, sAborted, sCancelled, sClosed, enqueued>>
   /\ UNCHANGED outsideStream

\* the fetch of a periodic fetchRSS settles
PeriodicFetched(out) ==
   /\ periodic
   /\ periodic' = FALSE
   /\ enqueued' = enqueued + Sent(out).n
   /\ UNCHANGED <<sBackendUrl, sPhase, intervalId, listening, sAborted, sCancelled, sClosed, ticks>>
   /\ UNCHANGED outsideStream

\* request.signal aborts; the listener runs if it has been registered
RequestAbort ==
   /\ sPhase \in {"Initial", "Started"}
   /\ ~sAborted
   /\ sAborted' = TRUE
   /\ IF listening THEN
         /\ intervalId' = ClearInterval(intervalId)
         /\ sClosed' = (sClosed \/ CanEnqueue)
      ELSE UNCHANGED <<intervalId, sClosed>>
   /\ UNCHANGED <<sBackendUrl, sPhase, periodic, listening, sCancelled, enqueued, ticks>>
   /\ UNCHANGED outsideStream

\* the consumer cancels the stream: cancel()
StreamCancel ==
   /\ sPhase \in {"Initial", "Started"}
   /\ ~sCancelled
   /\ ~sClosed
   /\ sCancelled' = TRUE
   /\ intervalId' = ClearInterval(intervalId)
   /\ UNCHANGED <<sBackendUrl, sPhase, periodic, listening, sAborted, sClosed, enqueued, ticks>>
   /\ UNCHANGED outsideStream

StreamNext ==
   \/ StreamGET
   \/ \E out \in Outcomes : InitialFetched(out)
   \/ Tick
   \/ \E out \in Outcomes : PeriodicFetched(out)
   \/ RequestAbort
   \/ StreamCancel

SpecStream == StreamInit /\ [][StreamNext]_vars

(* ------------- TorrentClient: the EventSource effect ------------------- *)
\* the effect has run for a backendUrl: connect() was called once
ReconnInit ==
   /\ AddIdle
   /\ ConcIdle
   /\ EnvIdle
   /\ MetaIdle
   /\ DialogIdle
   /\ LifeIdle
   /\ StreamIdle
   /\ eventSource = "connecting"
   /\ reconnectAttempts = 0
   /\ timers = {}
   /\ reconnectTimeout = 0
   /\ scheduled = 0
   /\ cleaned = FALSE
   /\ torrentList = "empty"
   /\ connects = 0
   /\ lateConnect = FALSE

\* eventSource.onopen
OnOpen ==
   /\ eventSource = "connecting"
   /\ eventSource' = "open"
   /\ reconnectAttempts' = 0
   /\ connects' = 0
   /\ UNCHANGED <<timers, reconnectTimeout, scheduled, cleaned, torrentList, lateConnect>>
   /\ UNCHANGED outsideReconn

\* eventSource.onmessage with an update
OnUpdate ==
   /\ eventSource = "open"
   /\ torrentList' = "list"
   /\ UNCHANGED <<eventSource, reconnectAttempts, timers, reconnectTimeout, scheduled, cleaned,
                  connects, lateConnect>>
   /\ UNCHANGED outsideReconn

\* eventSource.onerror: the browser either retries the connection itself
\* (the source is connecting again and can fail again) or gives the source up
OnError(retried) ==
   /\ eventSource \in {"connecting", "open"}
   /\ eventSource' = IF retried THEN "connecting" ELSE "failed"
   /\ IF reconnectAttempts < maxReconnectAttempts THEN
         /\ scheduled < MaxTimers
         /\ reconnectAttempts' = reconnectAttempts + 1
         /\ scheduled' = scheduled + 1
         /\ reconnectTimeout' = scheduled'
         /\ timers' = timers \cup {scheduled'}
         /\ UNCHANGED torrentList
      ELSE
         /\ torrentList' = "empty"
         /\ UNCHANGED <<reconnectAttempts, scheduled, reconnectTimeout, timers>>
   /\ UNCHANGED <<cleaned, connects, lateConnect>>
   /\ UNCHANGED outsideReconn

\* a reconnect timer fires: connect()
OnTimer(id) ==
   /\ id \in timers
   /\ timers' = timers \ {id}
   /\ eventSource' = "connecting"
   /\ connects' = connects + 1
   /\ lateConnect' = (lateConnect \/ cleaned)
   /\ UNCHANGED <<reconnectAttempts, reconnectTimeout, scheduled, cleaned, torrentList>>
   /\ UNCHANGED outsideReconn

\* the cleanup the effect returns
Cleanup ==
   /\ ~cleaned
   /\ cleaned' = TRUE
   /\ eventSource' = "closed"
   /\ timers' = timers \ {reconnectTimeout}
   /\ UNCHANGED <<reconnectAttempts, reconnectTimeout, scheduled, torrentList, connects, lateConnect>>
   /\ UNCHANGED outsideReconn

ReconnNext ==
   \/ OnOpen
   \/ OnUpdate
   \/ \E retried \in BOOLEAN : OnError(retried)
   \/ \E id \in 1..MaxTimers : OnTimer(id)
   \/ Cleanup

SpecReconn == ReconnInit /\ [][ReconnNext]_vars

(* ===================== properties of the add orchestration ============= *)
\* positions in `requests` of the requests of one kind
Issued(kind) == { i \in 1..Len(requests) : requests[i].kind = kind }

\* an HTTP status of the 2xx class
IsSuccess(status) == status \in 200..299

\* the backend answered request i with success
Succeeded(i) == IsSuccess(requests[i].status)

\* a poll has returned a listing headed by the torrent's metadata hash
Matched == \E i \in Issued("info") : requests[i].hit

\* the joined paths of the metadata's flat file list
FilePathSet == { Join(metadata.files[i].path) : i \in 1..Len(metadata.files) }

\* no two files of the list have the same path
PathsDistinct ==
   \A i, j \in 1..Len(metadata.files) :
      metadata.files[i].path = metadata.files[j].path => i = j

\* the selection names some but not all of the files, and nothing else
StrictSubset == selectedFiles.paths \subseteq FilePathSet /\ selectedFiles.paths # FilePathSet

\* zero-based positions of the files whose path is not selected
Unselected == { i - 1 : i \in { j \in 1..Len(metadata.files) : Join(metadata.files[j].path) \notin selectedFiles.paths } }

\* the file ids the backend reads from the id field of request i
RequestIds(i) == SplitIds(requests[i].id)

\* the handler has answered with a failure
Failure == response.status # 0 /\ ~IsSuccess(response.status)

\* the backend accepted the add request
AddSucceeded == \E i \in Issued("add") : Succeeded(i)

\* C1: the add request submitted to the backend always asks for a stopped
\* torrent, whatever the caller's `paused` option is
C1_AddAlwaysStopped ==
   \A i \in Issued("add") : requests[i].stopped = "true" /\ requests[i].urls = TorrentUrl

\* C1 witness: an add request has been sent for a caller that asked for paused = false
C1_Witness == Issued("add") # {} /\ ~paused

\* the place of a kind of request in the order of the stages
C2_Rank(kind) == CASE kind = "add" -> 1 [] kind = "info" -> 2 [] kind = "filePrio" -> 3 [] OTHER -> 4

\* C2: the backend calls are one add, then polls, then at most one filePrio,
\* then at most one start; a start never precedes the matching poll nor,
\* for a strict subset selection, a successful filePrio
C2_CallOrder ==
   /\ requests # <<>> => requests[1].kind = "add"
   /\ Cardinality(Issued("add")) <= 1
   /\ Cardinality(Issued("filePrio")) <= 1
   /\ Cardinality(Issued("start")) <= 1
   /\ \A i, j \in 1..Len(requests) : i < j => C2_Rank(requests[i].kind) <= C2_Rank(requests[j].kind)
   /\ \A s \in Issued("start") :
         /\ \E i \in Issued("info") : i < s /\ requests[i].hit
         /\ StrictSubset => \E f \in Issued("filePrio") : f < s /\ Succeeded(f)

\* C2 witness: a run with several polls, a filePrio and a start request
C2_Witness ==
   /\ Issued("start") # {}
   /\ Issued("filePrio") # {}
   /\ Cardinality(Issued("info")) >= 2
   /\ StrictSubset

\* C3: at most MaxRetrys polls are made, no poll follows a matching one, and
\* after a matching poll the handler goes on to the next stage
C3_BoundedPolling ==
   /\ Cardinality(Issued("info")) <= MaxRetrys
   /\ \A i \in Issued("info") :
         requests[i].hit =>
            /\ \A j \in Issued("info") : j <= i
            /\ pc \in {"ApplyingFilePriorities", "Starting", "Done"}
            /\ response.error # "Couldn't find torrent"

\* C3 witness: the last allowed poll is the first one that matches
C3_Witness ==
   /\ Cardinality(Issued("info")) = MaxRetrys
   /\ requests[Len(requests)].kind = "info"
   /\ requests[Len(requests)].hit
   /\ pc = "ApplyingFilePriorities"

\* C4: when no allowed poll matches, the handler answers with a failure and
\* sends neither a filePrio nor a start request
C4_NotFoundFails ==
   ~Matched =>
      /\ Issued("filePrio") = {}
      /\ Issued("start") = {}
      /\ ~IsSuccess(response.status)
      /\ pc \notin {"ApplyingFilePriorities", "Starting"}
      /\ Cardinality(Issued("info")) = MaxRetrys => pc = "Done" /\ Failure

\* C4 witness: the poll budget is used up without a match
C4_Witness ==
   /\ Cardinality(Issued("info")) = MaxRetrys
   /\ ~Matched
   /\ \A i \in Issued("info") : requests[i].status # 0
   /\ response.error = "Couldn't find torrent"

\* a request that makes its stage fail: the fetch threw, or the backend
\* rejected an add, filePrio or start request
C5_FailedRequest(r) == r.status = 0 \/ (r.kind # "info" /\ ~IsSuccess(r.status))

C5_Halted ==
   \/ response # NoResponse
   \/ requests # <<>> /\ C5_FailedRequest(requests[Len(requests)])

\* C5: once a stage has failed or the handler has answered, no further
\* backend request is issued
C5_HaltsOnFailure == [][C5_Halted => requests' = requests]_vars

\* C5 witness: the filePrio request was rejected for a caller that wanted the
\* torrent started
C5_Witness ==
   /\ pc = "Done"
   /\ ~paused
   /\ requests # <<>>
   /\ requests[Len(requests)].kind = "filePrio"
   /\ requests[Len(requests)].status = 404

C6_Pre ==
   /\ metadata.present /\ selectedFiles.present
   /\ PathsDistinct
   /\ selectedFiles.paths \subseteq FilePathSet
   /\ Cardinality(selectedFiles.paths) < Len(metadata.files)

\* C6: for N files with distinct paths and a selection of k < N of them, a
\* run that gets past registration sends exactly one filePrio request, with
\* priority 0, whose ids are the N-k positions of the unselected files in
\* list order
C6_ComplementIds ==
   C6_Pre =>
      /\ Cardinality(Issued("filePrio")) <= 1
      /\ Matched /\ pc \in {"Starting", "Done"} => Cardinality(Issued("filePrio")) = 1
      /\ \A f \in Issued("filePrio") :
            /\ requests[f].priority = "0"
            /\ requests[f].hash = metadata.hash
            /\ Len(RequestIds(f)) = Len(metadata.files) - Cardinality(selectedFiles.paths)
            /\ { RequestIds(f)[k] : k \in 1..Len(RequestIds(f)) } = Unselected
            /\ \A k \in 1..(Len(RequestIds(f)) - 1) : RequestIds(f)[k] < RequestIds(f)[k + 1]
            /\ \A k \in 1..Len(RequestIds(f)) :
                  Join(metadata.files[RequestIds(f)[k] + 1].path) \notin selectedFiles.paths

\* C6 witness: one file of three is selected and the filePrio request for the
\* other two has been sent
C6_Witness ==
   /\ C6_Pre
   /\ Len(metadata.files) = 3
   /\ Cardinality(selectedFiles.paths) = 1
   /\ Issued("filePrio") # {}
   /\ pc = "Starting"

\* C7: no filePrio request is issued when the selection equals the full file
\* list or is empty
C7_NoPrioWhenAllOrEmpty ==
   (metadata.present /\ selectedFiles.present
      /\ (selectedFiles.paths = FilePathSet \/ selectedFiles.paths = {}))
   => Issued("filePrio") = {}

\* C8: no filePrio request sets every file of the torrent to priority 0; the
\* handler fails instead
C8_NeverExcludesAll ==
   \A f \in Issued("filePrio") :
      { RequestIds(f)[k] : k \in 1..Len(RequestIds(f)) } # { i - 1 : i \in 1..Len(metadata.files) }

\* every stage before the start stage succeeded: the add was accepted, a poll
\* matched, and the files were cherry-picked or there was nothing to pick
C9_EarlierSucceeded ==
   /\ AddSucceeded
   /\ Matched
   /\ \/ \E f \in Issued("filePrio") : Succeeded(f)
      \/ Cardinality(selectedFiles.paths) >= Len(metadata.files)

\* C9: a start request, for the torrent's hash, is issued exactly when the
\* caller's paused option is false and every earlier stage succeeded; with
\* paused true the torrent is never set running
C9_StartIffNotPaused ==
   /\ \A s \in Issued("start") : ~paused /\ C9_EarlierSucceeded /\ requests[s].hashes = metadata.hash
   /\ (pc = "Done" /\ ~paused /\ C9_EarlierSucceeded) => Issued("start") # {}
   /\ paused => Issued("start") = {} /\ bState # "running"

\* C9 witness: an unpaused run whose stages all succeeded has sent the start
\* request and the torrent runs on the backend
C9_Witness ==
   /\ ~paused /\ pc = "Done" /\ response.status = 200
   /\ Issued("start") # {} /\ bState = "running"

C10_AllStagesSucceeded ==
   /\ AddSucceeded
   /\ Matched
   /\ StrictSubset => \E f \in Issued("filePrio") : Succeeded(f)
   /\ ~paused => \E s \in Issued("start") : Succeeded(s)

\* C10: the handler answers 200 with the metadata hash only if the add
\* succeeded, a poll matched, filePrio succeeded for a strict subset
\* selection and start succeeded for paused = false; every other run ends
\* with a failure response
C10_SuccessOnlyIfAllStages ==
   /\ response.status = 200 => C10_AllStagesSucceeded /\ response.hash = metadata.hash
   /\ (pc = "Done" /\ ~C10_AllStagesSucceeded) => Failure
   /\ pc = "Done" => response # NoResponse

\* C10 witness: a successful run that needed both a filePrio and a start
C10_Witness ==
   /\ response.status = 200
   /\ StrictSubset
   /\ ~paused

\* the stage a failure response names: the catch block's message and the
\* rejected filePrio's error text carry the url that was being talked to
C11_ReportedStage(resp) ==
   LET names(u) == resp.message = "Failed on " \o u \/ resp.error = "Failed to GET to " \o u
   IN CASE names(AddUrl) -> "Registering"
        [] names(InfoUrl) -> "AwaitingRegistration"
        [] names(PrioUrl) -> "ApplyingFilePriorities"
        [] names(StartUrl) -> "Starting"
        [] OTHER -> "none"

\* the stage at which a failed run stopped, read off the request log
C11_FailedStage ==
   IF ~AddSucceeded THEN "Registering"
   ELSE IF ~Matched THEN "AwaitingRegistration"
   ELSE IF Issued("start") = {} THEN "ApplyingFilePriorities"
   ELSE "Starting"

\* C11: every failure response of the orchestration names the stage at which
\* the failure occurred
C11_FailureReportsStage ==
   (pc = "Done" /\ Failure /\ requests # <<>>) => C11_ReportedStage(response) = C11_FailedStage

\* C13: no request other than add, info, filePrio and start is ever issued,
\* and a run that fails after an accepted add leaves the torrent accepted or
\* listed on the backend, stopped
C13_NoCompensation ==
   /\ \A i \in 1..Len(requests) : requests[i].kind \in {"add", "info", "filePrio", "start"}
   /\ (AddSucceeded /\ Failure) =>
         \/ bPending = "true"
         \/ (\E i \in 1..Len(bTorrents) : bTorrents[i] = Hash) /\ bState = "stopped"
   /\ bPrio # {} => \E f \in Issued("filePrio") : Succeeded(f)

\* C13 witness: the start request was rejected after add, poll and filePrio
\* had gone through; the torrent is listed and stopped
C13_Witness ==
   /\ pc = "Done" /\ Failure
   /\ \E s \in Issued("start") : requests[s].status = 404
   /\ Issued("filePrio") # {}
   /\ bState = "stopped"

\* the backend lists the torrent of run r
ConcListed(r) == \E i \in 1..Len(cTorrents) : cTorrents[i] = CHash(r)

\* C12: of two concurrent runs, one whose torrent is listed by the backend
\* when it polls does not fail AwaitingRegistration, whatever the other run
\* and the backend do in between
C12_ConcurrentRunsIndependent ==
   [][\A r \in Reqs :
         (cPc[r] = "AwaitingRegistration" /\ ConcListed(r)) => cPc'[r] # "Failed"]_vars

\* C14: after the client disconnects during the registration polling loop no
\* further poll, filePrio or start request is issued
C14_AbortStopsRequests == [][aborted = "AwaitingRegistration" => requests' = requests]_vars

\* C15: whatever the backend does, the handler eventually answers
C15_AlwaysResponds == <>(response # NoResponse)

(* ===================== properties of metadata resolution =============== *)
\* C16: when the magnet timer fires or the swarm client reports an error,
\* getTorrentMetadata returns a record with the identifier and an empty file
\* list, and the failure is not passed on to the caller
C16_MagnetFailureDegrades ==
   [][((MetaTimeout \/ MetaClientError) /\ IsMagnet(query.url)) =>
         /\ resolved'.kind = "returned"
         /\ resolved'.record.v1Hash # ""
         /\ resolved'.record.files = <<>>
         /\ metaResponse'.status = 200]_vars

\* C17: however getTorrentMetadata ends, it has called client.destroy() on
\* the client it created
C17_ClientReleased == resolved.kind # "none" => destroyed >= 1

C17_Witness == resolved.kind = "returned" /\ destroyed = 1 /\ metaResponse.status = 200

\* no two entries of the list have the same path
Distinct(files) == \A i, j \in 1..Len(files) : files[i].path = files[j].path => i = j

\* C18: flattening the tree built from a list of file entries gives the list
\* back, in the same order
C18_BuildFlattenRoundTrip ==
   (resolved.kind = "returned" /\ Branch(info) = "multi" /\ Distinct(info.files)) =>
      flattenV2FileTree(resolved.record.fileTree, <<>>) = resolved.record.files

\* C20: an info dictionary with neither "file tree" nor "files" nor "length"
\* never gets a metadata record
C20_MissingFileInformationRejected ==
   (info.present /\ info.keys = {}) => (resolved.kind # "returned" /\ metaResponse.status # 200)

(* ===================== properties of the dialog ======================== *)
\* the file nodes below a node
C19_FilesBelow(node) ==
   { i \in 2..Len(Traverse(node)) : Traverse(node)[i].isFile }

RECURSIVE C19_Sum(_, _)
\* the sum of the sizes of the nodes at a set of positions of a traversal
C19_Sum(nodes, at) ==
   IF at = {} THEN 0
   ELSE LET i == CHOOSE j \in at : TRUE IN nodes[i].size + C19_Sum(nodes, at \ {i})

\* C19: once the tree is built, the size of every directory node, the root
\* included, is the sum of the lengths of the files below it, whatever is
\* selected
C19_DirectorySizes ==
   dlgFiles.loaded =>
      /\ \A i \in 1..Len(Traverse(dlgTree)) :
            LET node == Traverse(dlgTree)[i]
            IN  ~node.isFile => node.size = C19_Sum(Traverse(node), C19_FilesBelow(node))
      /\ Distinct(dlgFiles.list) => dlgTree.size = SumLengths(dlgFiles.list)

C19_Witness ==
   /\ dlgFiles.loaded
   /\ \E i \in 1..Len(Traverse(dlgTree)) :
         /\ Traverse(dlgTree)[i].path = "d"
         /\ Traverse(dlgTree)[i].size = 5
   /\ dlgTree.size = 6
   /\ dlgSelected = {"a", "d", "d/c"}

(* ============ further properties of metadata resolution ================ *)
\* C21: a returned record has a v1Hash, and a v2Hash exactly when the info
\* dictionary's meta version is 2
C21_Hashes ==
   resolved.kind = "returned" =>
      /\ resolved.record.v1Hash # ""
      /\ resolved.record.hash = resolved.record.v1Hash
      /\ resolved.record.v2Hash # "" <=> info.metaVersion = 2

C21_Witness ==
   /\ resolved.kind = "returned"
   /\ info.metaVersion = 2
   /\ resolved.record.v2Hash # ""
   /\ metaResponse.body.v2Hash = resolved.record.v2Hash

\* every length of the list is a number
C22_Numeric(list) == \A i \in 1..Len(list) : list[i].length >= 0

\* C22: the v2 file tree is used when present, else the files list, else one
\* entry [name] of length info.length; the record's length is the sum of the
\* lengths of its entries
C22_LayoutPrecedence ==
   resolved.kind = "returned" =>
      LET record == resolved.record IN
      /\ IF "file tree" \in info.keys THEN
            /\ record.fileTree = buildV2FileTree(FileTreeFrom(<<>>, info.files), <<>>)
            /\ record.files = flattenV2FileTree(record.fileTree, <<>>)
         ELSE IF "files" \in info.keys THEN
            record.files = info.files
         ELSE
            /\ Len(record.files) = 1
            /\ record.files[1].path = <<info.name>>
            /\ "length" \in info.keys => record.files[1].length = SingleLength
      /\ C22_Numeric(record.files) => record.length = SumLengths(record.files)

C22_Witness ==
   /\ resolved.kind = "returned"
   /\ info.keys = InfoKeys
   /\ Len(info.files) = 2
   /\ Distinct(info.files)
   /\ resolved.record.length = 5

(* ============ further properties of the add orchestration ============== *)
\* one of the three things the handler requires is missing
C25_Missing == backendUrl = "" \/ ~metadata.present \/ ~selectedFiles.present

\* C25: with backendUrl, torrent.metadata or data.selectedFiles missing no
\* backend request is issued and the answer has status 400
C25_NoRequestWhenInvalid ==
   C25_Missing =>
      /\ requests = <<>>
      /\ pc \in {"Idle", "Done"}
      /\ pc = "Done" => response.status = 400

C25_Witness ==
   /\ backendUrl # ""
   /\ metadata.present
   /\ ~selectedFiles.present
   /\ pc = "Done"
   /\ response.status = 400
   /\ requests = <<>>

\* the step is a poll that was answered and did not match
C26_MissedPoll ==
   /\ Len(requests') = Len(requests) + 1
   /\ requests'[Len(requests')].kind = "info"
   /\ requests'[Len(requests')].status # 0
   /\ ~requests'[Len(requests')].hit

\* C26: a poll whose body cannot be parsed, or lists nothing or another
\* hash, uses up one attempt; the handler goes on polling unless that was
\* the last attempt
C26_MissConsumesOneAttempt ==
   [][C26_MissedPoll =>
         /\ retrys' = retrys - 1
         /\ retrys' > 0 => (pc' = "AwaitingRegistration" /\ response' = NoResponse)
         /\ retrys' = 0 => (pc' = "Done" /\ response'.status = 500)]_vars

C26_Witness ==
   /\ pc = "AwaitingRegistration"
   /\ Cardinality(Issued("info")) = 3
   /\ retrys = MaxRetrys - 3
   /\ ~updated.parsed
   /\ response = NoResponse

\* C24: in magnet resolution the first of metadata callback, client error and
\* timeout decides the outcome: after the callback the timer is cancelled and
\* never fires, and after the timeout a later callback changes nothing
C24_DecidedOnce ==
   (IsMagnet(query.url) /\ events # <<>>) =>
      /\ events[1] = "torrent" =>
            /\ timeout = "cleared"
            /\ \A i \in 1..Len(events) : events[i] # "timeout"
            /\ info.present => (resolved.kind = "returned" /\ metaResponse.status = 200)
      /\ events[1] \in {"timeout", "error"} =>
            /\ resolved.kind = "threw"
            /\ metaResponse.status = 502
      /\ events[1] = "timeout" => resolved.error = "Magnet resolution timeout"

C24_Witness ==
   /\ IsMagnet(query.url)
   /\ events = <<"timeout", "torrent">>
   /\ info.present
   /\ metaResponse.status = 502

(* ================ further properties of the dialog ===================== *)
\* the paths of the nodes below the node with path p, p included
C27_Subtree(p) == PathsOf(findNode(dlgTree, p))

\* the paths of the nodes of the tree that have the node with path p below them
C27_Ancestors(p) ==
   { q \in PathsOf(dlgTree) : q # p /\ p \in PathsOf(findNode(dlgTree, q)) }

\* what the selection is to become when p is clicked, given the ancestors
\* that are affected
C27_Expected(p, selected, ancestors) ==
   IF ~Found(dlgTree, p) THEN dlgSelected
   ELSE IF selected THEN dlgSelected \cup C27_Subtree(p) \cup ancestors
   ELSE (dlgSelected \ C27_Subtree(p)) \ ancestors

\* C27 as stated: on a loaded tree handleSelectionChange(p, selected) removes
\* or adds p, its descendants and all its ancestors, leaves every other path
\* as it is, and does nothing for a path that is not in the tree
C27_SelectionFrame ==
   [][\A p \in Clickable, selected \in BOOLEAN :
         (dlgFiles.loaded /\ handleSelectionChange(p, selected)) =>
            dlgSelected' = C27_Expected(p, selected, C27_Ancestors(p))]_vars

\* C27 as amended: the same, with the root "/" not counted among the
\* ancestors: the root's membership is left as it is
C27_SelectionFrameBelowRoot ==
   [][\A p \in Clickable, selected \in BOOLEAN :
         (dlgFiles.loaded /\ handleSelectionChange(p, selected)) =>
            dlgSelected' = C27_Expected(p, selected, C27_Ancestors(p) \ {"/"})]_vars

\* a file of a directory has been deselected: the directory went with it, the
\* root stayed
C27_Witness ==
   /\ dlgFiles.loaded
   /\ FilePaths(dlgFiles.list) = {"a", "d/b", "d/c"}
   /\ dlgSelected = {"/", "a", "d/c"}

\* C28: what onSubmit posts as selectedFiles are joined paths of files of the
\* dialog's file list only
C28_SubmitsFilePathsOnly ==
   dlgSent.sent => dlgSent.selectedFiles \subseteq FilePaths(dlgFiles.list)

\* C23: while the dialog is open for a torrent and is not loading, the file
\* list it holds is that torrent's or none
C23_OwnFileList ==
   (isOpen /\ dlgTorrent \in Torrents /\ ~isLoadingFiles /\ dlgFiles.loaded) =>
      dlgFiles.list = TorrentFiles(dlgTorrent)

(* ================ properties of the event stream and its client ======== *)
\* C29: once the client has disconnected (request abort or stream cancel) no
\* event is enqueued any more and the polling interval is not running
C29_NoActivityAfterDisconnect ==
   [][(sAborted \/ sCancelled) => (enqueued' = enqueued /\ intervalId' # "set")]_vars

\* C30: at most maxReconnectAttempts reconnects are made without a successful
\* open in between, a successful open resets the counter, the error after
\* the last attempt sets no timer and clears the list, and no reconnect is
\* made after the cleanup
C30_BoundedReconnects ==
   [][/\ connects' <= maxReconnectAttempts
      /\ reconnectAttempts' <= maxReconnectAttempts
      /\ OnOpen => reconnectAttempts' = 0
      /\ (reconnectAttempts = maxReconnectAttempts /\ \E retried \in BOOLEAN : OnError(retried)) =>
            (timers' = timers /\ torrentList' = "empty")
      /\ ~lateConnect']_vars

====
